---- MODULE Spec2Model ----
(***************************************************************************)
(* Model of the BLT compiler driver, be::bltc::BltcApp                     *)
(* (src/include/bltc_app.hpp, src/src/bltc_app.cpp).                       *)
(*                                                                         *)
(* Strings (S) and paths (Path) are sequences of tokens: "/" is the       *)
(* directory separator, "." the extension dot, every other token is a     *)
(* run of ordinary characters.  Constructing a Path from an S and         *)
(* Path::string() keep the token sequence.                                 *)
(*                                                                         *)
(* The collaborators that are not part of the repository (the command     *)
(* line processor, util::glob, the file system, std::cin, the BLT         *)
(* compiler) are the environment: each call draws its outcome from the    *)
(* outcomes its interface allows.                                          *)
(***************************************************************************)
EXTENDS Integers, Sequences, FiniteSets, TLC

\* ------------------------------------------------------------------ bounds
MaxArgs == 3        \* command-line tokens handled by the constructor
MaxJobs == 2        \* jobs declared on the command line

\* ------------------------------------------------------- input alphabets
DestTokens == { <<"x">>, <<"/", "y">> }
RawTemplates == { <<"t">> }
Patterns == { <<"*", ".", "blt">>, <<"/", "a", ".", "blt">> }
OutputDirs == { <<"out">> }
Files == { <<"a", ".", "blt">>, <<"d", "/", "b", ".", "blt">> }
StdinContents == { <<"s">> }
Cwd == <<"/", "w">>

\* ------------------------------------------------------------ max, paths
Max(a, b) == IF a >= b THEN a ELSE b

\* Path::empty / S::empty
empty(p) == Len(p) = 0

\* Path::is_absolute, Path::is_relative
is_absolute(p) == Len(p) > 0 /\ p[1] = "/"
is_relative(p) == ~is_absolute(p)

\* index of the last token equal to c in p, 0 when there is none
RECURSIVE LastIndexFrom(_, _, _)
LastIndexFrom(p, c, i) ==
    IF i = 0 THEN 0
    ELSE IF p[i] = c THEN i
    ELSE LastIndexFrom(p, c, i - 1)

LastIndex(p, c) == LastIndexFrom(p, c, Len(p))

\* Path::operator/= : an absolute right-hand side replaces the path,
\* otherwise it is appended after a separator (none after a trailing one)
path_append(p, q) ==
    IF is_absolute(q) \/ empty(p) THEN q
    ELSE IF p[Len(p)] = "/" THEN p \o q
    ELSE p \o <<"/">> \o q

\* mutant: the new extension is appended and the old one kept
replace_extension_m(p) == p \o <<".", "lua">>

\* Path::replace_extension("lua"): the extension is what follows the last
\* dot of the filename, a dot that starts the filename not counting
replace_extension(p) ==
    LET slash == LastIndex(p, "/")
        dot == LastIndex(p, ".")
        stem == IF dot > slash + 1 THEN SubSeq(p, 1, dot - 1) ELSE p
    IN stem \o <<".", "lua">>

\* fs::absolute
absolute(p) == IF is_absolute(p) THEN p ELSE path_append(Cwd, p)

\* --------------------------------------------------------------- records
\* BltcApp::Job
Job(source, dest, source_type, dest_type) ==
    [source |-> source, dest |-> dest,
     source_type |-> source_type, dest_type |-> dest_type]

\* the work item the last step executed; job = 0 when it executed none.
\* read / open / transform are "none" when that stage was not reached;
\* before and after are status_ when the item started and ended
Item(job, src, dest_type, dest, read, open, transform, data, before, after) ==
    [job |-> job, src |-> src, dest_type |-> dest_type, dest |-> dest,
     read |-> read, open |-> open, transform |-> transform, data |-> data,
     before |-> before, after |-> after]

NoItem == Item(0, <<>>, "none", <<>>, "none", "none", "none", <<>>, 0, 0)

VARIABLES
    pc,             \* "parse", "start", "loop", "fanout", "done"
    nargs,          \* command-line tokens handled so far
    dest,           \* constructor local: pending destination token
    dest_type,      \* constructor local: pending destination kind
    show,           \* constructor locals show_help / show_version
    debug_mode_,
    status_,
    jobs_,
    output_path_,
    idx,            \* position of the range-for over jobs_
    paths,          \* process_: the vector util::glob returned
    mi,             \* process_: position of the range-for over paths
    stdin_init,     \* get_stdin: the static is initialised
    stdin_input,    \* get_stdin: the static S input
    cin_buf,        \* std::cin: characters not yet extracted
    cin_fail,       \* std::cin: failbit or badbit is set
    outfiles,       \* file system: contents of the files written
    item,           \* the work item executed by the last step
    jobs0,          \* history: jobs_ as the constructor left it
    raised,         \* history: the highest severity raised so far
    nomatch,        \* history: some job matched no file
    processed,      \* history: how process_ handled each job, in order
    job_items,      \* history: sources of the current job's work items
    stdin_reads,    \* history: calls of process_stdin
    console_data,   \* history: data console jobs handed to the transform
    configured      \* history: how the first try block of operator() ended

vars == << pc, nargs, dest, dest_type, show, debug_mode_, status_, jobs_,
           output_path_, idx, paths, mi, stdin_init, stdin_input, cin_buf,
           cin_fail, outfiles, item, jobs0, raised, nomatch, processed,
           job_items, stdin_reads, console_data, configured >>

runVars == << idx, paths, mi, stdin_init, stdin_input, cin_buf, cin_fail,
              outfiles, item, jobs0, raised, nomatch, processed, job_items,
              stdin_reads, console_data, configured >>

Init ==
    /\ pc = "parse"
    /\ nargs = 0
    /\ dest = <<>>
    /\ dest_type = "path"
    /\ show = FALSE
    /\ debug_mode_ = FALSE
    /\ status_ = 0
    /\ jobs_ = <<>>
    /\ output_path_ = <<>>
    /\ idx = 1
    /\ paths = <<>>
    /\ mi = 1
    /\ stdin_init = FALSE
    /\ stdin_input = <<>>
    /\ cin_buf \in StdinContents
    /\ cin_fail \in BOOLEAN
    /\ outfiles = << >>
    /\ item = NoItem
    /\ jobs0 = <<>>
    /\ raised = 0
    /\ nomatch = FALSE
    /\ processed = <<>>
    /\ job_items = <<>>
    /\ stdin_reads = 0
    /\ console_data = {}
    /\ configured = "none"

\* ------------------------------------------------ constructor (parsing)
CanParse == pc = "parse" /\ nargs < MaxArgs

\* -o / --output PATH
OptOutput ==
    /\ CanParse
    /\ \E str \in DestTokens :
          /\ dest' = str
          /\ dest_type' = "path"
    /\ nargs' = nargs + 1
    /\ UNCHANGED << pc, show, debug_mode_, status_, jobs_, output_path_ >>
    /\ UNCHANGED runVars

\* --stdout
OptStdout ==
    /\ CanParse
    /\ dest_type' = "console"
    /\ nargs' = nargs + 1
    /\ UNCHANGED << pc, dest, show, debug_mode_, status_, jobs_, output_path_ >>
    /\ UNCHANGED runVars

\* --debug
OptDebug ==
    /\ CanParse
    /\ debug_mode_' = TRUE
    /\ nargs' = nargs + 1
    /\ UNCHANGED << pc, dest, dest_type, show, status_, jobs_, output_path_ >>
    /\ UNCHANGED runVars

\* the destination kind the --input and --stdin handlers store in the job
NonPathDestType(d, dt) == IF empty(d) THEN "console" ELSE dt

\* -I / --input STRING
OptInput ==
    /\ CanParse
    /\ Len(jobs_) < MaxJobs
    /\ \E str \in RawTemplates :
          jobs_' = Append(jobs_, Job(str, dest, "raw", NonPathDestType(dest, dest_type)))
    /\ dest' = <<>>
    /\ dest_type' = "path"
    /\ nargs' = nargs + 1
    /\ UNCHANGED << pc, show, debug_mode_, status_, output_path_ >>
    /\ UNCHANGED runVars

\* --stdin
OptStdin ==
    /\ CanParse
    /\ Len(jobs_) < MaxJobs
    /\ jobs_' = Append(jobs_, Job(<<>>, dest, "console", NonPathDestType(dest, dest_type)))
    /\ dest' = <<>>
    /\ dest_type' = "path"
    /\ nargs' = nargs + 1
    /\ UNCHANGED << pc, show, debug_mode_, status_, output_path_ >>
    /\ UNCHANGED runVars

\* mutant: the handler leaves the pending destination as it is
Positional_m ==
    /\ CanParse
    /\ Len(jobs_) < MaxJobs
    /\ \E str \in Patterns :
          jobs_' = Append(jobs_, Job(str, dest, "path", dest_type))
    /\ nargs' = nargs + 1
    /\ UNCHANGED << pc, dest, dest_type, show, debug_mode_, status_, output_path_ >>
    /\ UNCHANGED runVars

\* a positional argument
Positional ==
    /\ CanParse
    /\ Len(jobs_) < MaxJobs
    /\ \E str \in Patterns :
          jobs_' = Append(jobs_, Job(str, dest, "path", dest_type))
    /\ dest' = <<>>
    /\ dest_type' = "path"
    /\ nargs' = nargs + 1
    /\ UNCHANGED << pc, show, debug_mode_, status_, output_path_ >>
    /\ UNCHANGED runVars

\* the constructor returns: its locals are gone
ConstructorReturns(code) ==
    /\ status_' = code
    /\ pc' = "start"
    /\ nargs' = 0
    /\ dest' = <<>>
    /\ dest_type' = "path"
    /\ show' = FALSE
    /\ jobs0' = jobs_
    /\ raised' = code

\* -d / --output-dir PATH; a second one throws OptionException
OptOutputDir ==
    /\ CanParse
    /\ IF ~empty(output_path_)
       THEN /\ ConstructorReturns(2)
            /\ UNCHANGED << debug_mode_, jobs_, output_path_ >>
       ELSE /\ \E str \in OutputDirs : output_path_' = str
            /\ nargs' = nargs + 1
            /\ UNCHANGED << pc, dest, dest_type, show, debug_mode_, status_,
                            jobs_, jobs0, raised >>
    /\ UNCHANGED << idx, paths, mi, stdin_init, stdin_input, cin_buf, cin_fail,
                    outfiles, item, nomatch, processed, job_items,
                    stdin_reads, console_data, configured >>

\* -V / --version, -? / --help
OptShow ==
    /\ CanParse
    /\ show' = TRUE
    /\ nargs' = nargs + 1
    /\ UNCHANGED << pc, dest, dest_type, debug_mode_, status_, jobs_, output_path_ >>
    /\ UNCHANGED runVars

\* proc(argc, argv) throws on a malformed command line
ArgumentError ==
    /\ CanParse
    /\ ConstructorReturns(2)
    /\ UNCHANGED << debug_mode_, jobs_, output_path_ >>
    /\ UNCHANGED << idx, paths, mi, stdin_init, stdin_input, cin_buf, cin_fail,
                    outfiles, item, nomatch, processed, job_items,
                    stdin_reads, console_data, configured >>

\* proc(argc, argv) returns
ParseEnd ==
    /\ pc = "parse"
    /\ ConstructorReturns(IF ~show /\ jobs_ = <<>> THEN 1 ELSE status_)
    /\ UNCHANGED << debug_mode_, jobs_, output_path_ >>
    /\ UNCHANGED << idx, paths, mi, stdin_init, stdin_input, cin_buf, cin_fail,
                    outfiles, item, nomatch, processed, job_items,
                    stdin_reads, console_data, configured >>

\* ------------------------------------------------------ the environment
\* what util::get_file_contents_string does for a work item
ReadOutcomes == { "ok", "fail" }
\* what std::ofstream::open does: "failbit" leaves the stream failed
\* without throwing, "throw" is an exception out of the try block
OpenOutcomes == { "ok", "failbit", "throw" }
\* what blt::compile_blt / blt::debug_blt do: "error" is the
\* RecoverableException of a lexer or parser error, the one failure the
\* transform's interface names
TransformOutcomes == { "ok", "error" }
\* exceptions that reach the handlers of process_
Exceptions == { "filesystem_error", "Fatal", "exception" }

\* the bytes of the file at a path
FileContents(path) == <<"blt">> \o path

\* what the transform leaves in its sink
Compiled(data, debug) == << IF debug THEN "tree" ELSE "lua" >> \o data
Partial == << "partial" >>

\* the pattern has a wildcard; one without names a single file, which
\* util::glob finds or not
has_wildcard(pattern) == \E k \in 1 .. Len(pattern) : pattern[k] = "*"

\* what util::glob can return when it finds something: the sequences of
\* distinct files, of length 1 .. n
RECURSIVE MatchLists(_)
MatchLists(n) ==
    IF n = 0 THEN { }
    ELSE IF n = 1 THEN { <<f>> : f \in Files }
    ELSE LET shorter == MatchLists(n - 1)
         IN shorter \cup
            { Append(ms, f) : <<ms, f>> \in
                 { pr \in shorter \X Files :
                     \A k \in 1 .. Len(pr[1]) : pr[1][k] # pr[2] } }

\* a file's contents after a write
WriteFile(files, path, contents) ==
    [ d \in (DOMAIN files) \cup { path } |->
        IF d = path THEN contents ELSE files[d] ]

\* ------------------------------------------------- destination planning
\* mutant: the explicit destination token is ignored
PlanPathDest_m(path, job, outdir) ==
    IF job.dest_type = "path"
    THEN replace_extension(IF empty(outdir) THEN path
                           ELSE path_append(outdir, path))
    ELSE job.dest

\* process_path_: the destination written into the job
PlanPathDest(path, job, outdir) ==
    IF job.dest_type = "path"
    THEN IF empty(job.dest)
         THEN replace_extension(IF empty(outdir) THEN path
                                ELSE path_append(outdir, path))
         ELSE IF is_relative(job.dest) /\ ~empty(outdir)
              THEN path_append(outdir, job.dest)
              ELSE job.dest
    ELSE job.dest

PlanPath(path, job, outdir) ==
    [job EXCEPT !.dest = PlanPathDest(path, job, outdir)]

\* process_non_path_: the destination written into the job
PlanNonPath(job, outdir) ==
    IF job.dest_type = "path"
    THEN IF empty(job.dest)
         THEN [job EXCEPT !.dest_type = "console"]
         ELSE [job EXCEPT !.dest =
                  IF is_relative(job.dest) /\ ~empty(outdir)
                  THEN path_append(outdir, job.dest)
                  ELSE job.dest]
    ELSE job

\* ----------------------------------------------------------- process_raw_
\* mutant: the destination kind is not looked at
OpensFile_m(job) == TRUE

\* process_raw_ opens a file exactly when the job's destination is a path
OpensFile(job) == job.dest_type = "path"

\* status_ after the open stage
OpenStatus(st, job, o) ==
    IF OpensFile(job) /\ o = "throw" THEN Max(st, 5) ELSE st

\* os is set and the stream is good: the transform runs
SinkGood(job, o) == ~OpensFile(job) \/ o = "ok"

\* status_ after the transform stage
TransformStatus(st, t) == IF t = "error" THEN Max(st, 6) ELSE st

\* process_raw_(data, job) with the outcomes o of the open and t of the
\* transform: the status, the files and the stages reached
process_raw_(st, files, data, job, o, t, debug) ==
    LET st1 == OpenStatus(st, job, o)
        files1 == IF OpensFile(job) /\ o = "ok"
                  THEN WriteFile(files, job.dest, <<>>) ELSE files
    IN IF SinkGood(job, o)
       THEN [ status |-> TransformStatus(st1, t),
              files |-> IF OpensFile(job)
                        THEN WriteFile(files1, job.dest,
                                 IF t = "ok" THEN Compiled(data, debug) ELSE Partial)
                        ELSE files1,
              open |-> IF OpensFile(job) THEN o ELSE "none",
              transform |-> t ]
       ELSE [ status |-> st1, files |-> files1, open |-> o, transform |-> "none" ]

\* --------------------------------------------------------- process_path_
\* mutant: the handlers log the failure and leave status_ alone
ReadStatus_m(st, r) == st

\* status_ after the handlers of the planning-and-reading try block
ReadStatus(st, r) == IF r = "fail" THEN Max(st, 4) ELSE st

\* process_path_(path, job): plan, read, then process_raw_
process_path_(st, files, path, job, outdir, r, o, t, debug) ==
    LET planned == PlanPath(path, job, outdir)
        raw == process_raw_(st, files, FileContents(path), planned, o, t, debug)
    IN IF r = "fail"
       THEN [ job |-> planned, status |-> ReadStatus(st, r), files |-> files,
              read |-> r, open |-> "none", transform |-> "none", data |-> <<>> ]
       ELSE [ job |-> planned, status |-> raw.status, files |-> raw.files,
              read |-> r, open |-> raw.open, transform |-> raw.transform,
              data |-> FileContents(path) ]

\* ------------------------------------------------------ process_non_path_
process_non_path_(st, files, data, job, outdir, o, t, debug) ==
    LET planned == PlanNonPath(job, outdir)
        raw == process_raw_(st, files, data, planned, o, t, debug)
    IN [ job |-> planned, status |-> raw.status, files |-> raw.files,
         read |-> "none", open |-> raw.open, transform |-> raw.transform,
         data |-> data ]

\* the work item a result describes
ItemOf(j, src, res, before) ==
    Item(j, src, res.job.dest_type, res.job.dest, res.read, res.open,
         res.transform, res.data, before, res.status)

\* ------------------------------------------------------------- operator()
parseVars == << nargs, dest, dest_type, show, debug_mode_ >>

\* operator() entered with a status the constructor set
ReturnEarly ==
    /\ pc = "start"
    /\ status_ # 0
    /\ pc' = "done"
    /\ UNCHANGED << status_, jobs_, output_path_ >>
    /\ UNCHANGED parseVars
    /\ UNCHANGED runVars

\* the first try block: search paths and output directory
\*   "ok"        the output directory exists or was created
\*   "notdir"    the output path exists and is not a directory
\*   "absolute"  util::cwd or fs::absolute throws
\*   "create"    fs::exists, fs::create_directories or fs::is_directory throws
SetupOutcomes == { "ok", "notdir", "absolute", "create" }

\* mutant: the exception handlers log and leave status_ at 0
SetupStatus_m(c) == IF c = "notdir" THEN 5 ELSE 0

\* status_ as the first try block and its handlers leave it
SetupStatus(c) ==
    IF c = "notdir" THEN 5
    ELSE IF c \in { "absolute", "create" } THEN 1
    ELSE 0

Setup ==
    /\ pc = "start"
    /\ status_ = 0
    /\ \E c \in SetupOutcomes :
          /\ empty(output_path_) => c \in { "ok", "absolute" }
          /\ output_path_' = IF empty(output_path_) \/ c = "absolute"
                             THEN output_path_ ELSE absolute(output_path_)
          /\ status_' = SetupStatus(c)
          /\ configured' = c
          /\ raised' = Max(raised, SetupStatus(c))
          /\ pc' = IF SetupStatus(c) # 0 THEN "done" ELSE "loop"
    /\ UNCHANGED jobs_
    /\ UNCHANGED parseVars
    /\ UNCHANGED << idx, paths, mi, stdin_init, stdin_input, cin_buf, cin_fail,
                    outfiles, item, jobs0, nomatch, processed, job_items,
                    stdin_reads, console_data >>

\* --------------------------------------------------------------- process_
AtJob == pc = "loop" /\ idx <= Len(jobs_)

\* mutant: only the filesystem_error handler is there
ProcessCatches_m == { "filesystem_error" }

\* the exceptions the handlers of process_ catch
ProcessCatches == { "filesystem_error", "Fatal", "exception" }

\* status_ as the handlers of process_ leave it
ProcessCatchStatus(st, ex) == IF ex = "filesystem_error" THEN 4 ELSE 1

\* an exception ex leaves the try block of process_(jobs_[idx]): a handler of
\* process_ takes it and the loop goes on, or it unwinds to operator()
Thrown(ex, how) ==
    /\ IF ex \in ProcessCatches
       THEN /\ status_' = ProcessCatchStatus(status_, ex)
            /\ raised' = Max(raised, ProcessCatchStatus(status_, ex))
            /\ pc' = "loop"
            /\ idx' = idx + 1
       ELSE /\ status_' = Max(status_, 1)
            /\ raised' = Max(raised, 1)
            /\ pc' = "done"
            /\ idx' = idx
    /\ processed' = Append(processed, [job |-> idx, how |-> how])
    /\ item' = NoItem
    /\ paths' = <<>>
    /\ mi' = 1
    /\ job_items' = <<>>

\* path job: util::parse_path, fs::exists or util::glob throws
ProcessPathThrows ==
    /\ AtJob
    /\ jobs_[idx].source_type = "path"
    /\ \E ex \in Exceptions : Thrown(ex, "throw")
    /\ UNCHANGED << jobs_, output_path_, stdin_init, stdin_input, cin_buf,
                    cin_fail, outfiles, jobs0, nomatch, stdin_reads, console_data >>
    /\ UNCHANGED parseVars
    /\ UNCHANGED configured

\* the stored job after a step that worked on the stored job itself
StoreBack(js, i, planned) == [js EXCEPT ![i] = planned]

\* mutant: the fan-out loop passes the stored job, not a copy
StoreCopy_m(js, i, planned) == [js EXCEPT ![i] = planned]

\* the stored job after a step that worked on `Job copy = job`
StoreCopy(js, i, planned) == js

\* path job: the source is absolute and exists (fs::exists decides)
ProcessAbsolute ==
    /\ AtJob
    /\ jobs_[idx].source_type = "path"
    /\ is_absolute(jobs_[idx].source)
    /\ \E r \in ReadOutcomes, o \in OpenOutcomes, t \in TransformOutcomes :
          LET res == process_path_(status_, outfiles, jobs_[idx].source,
                                   jobs_[idx], output_path_, r, o, t, debug_mode_)
              it == ItemOf(idx, jobs_[idx].source, res, status_)
          IN /\ (r = "fail" => o = "ok" /\ t = "ok")
             /\ (~(r = "ok" /\ OpensFile(res.job)) => o = "ok")
             /\ (it.transform = "none" => t = "ok")
             /\ jobs_' = StoreBack(jobs_, idx, res.job)
             /\ status_' = res.status
             /\ raised' = Max(raised, res.status)
             /\ outfiles' = res.files
             /\ item' = it
             /\ job_items' = << it >>
    /\ processed' = Append(processed, [job |-> idx, how |-> "absolute"])
    /\ idx' = idx + 1
    /\ paths' = <<>>
    /\ mi' = 1
    /\ UNCHANGED << pc, output_path_, stdin_init, stdin_input, cin_buf,
                    cin_fail, jobs0, nomatch, stdin_reads, console_data >>
    /\ UNCHANGED parseVars
    /\ UNCHANGED configured

\* path job: util::glob finds nothing
ProcessNoMatch ==
    /\ AtJob
    /\ jobs_[idx].source_type = "path"
    /\ status_' = Max(status_, 3)
    /\ raised' = Max(raised, 3)
    /\ nomatch' = TRUE
    /\ processed' = Append(processed, [job |-> idx, how |-> "nomatch"])
    /\ item' = NoItem
    /\ job_items' = <<>>
    /\ idx' = idx + 1
    /\ paths' = <<>>
    /\ mi' = 1
    /\ UNCHANGED << pc, jobs_, output_path_, stdin_init, stdin_input, cin_buf,
                    cin_fail, outfiles, jobs0, stdin_reads, console_data >>
    /\ UNCHANGED parseVars
    /\ UNCHANGED configured

\* path job: util::glob expands the pattern to one or more paths
ProcessGlob ==
    /\ AtJob
    /\ jobs_[idx].source_type = "path"
    /\ has_wildcard(jobs_[idx].source)
    /\ \E ps \in MatchLists(Cardinality(Files)) : paths' = ps
    /\ mi' = 1
    /\ pc' = "fanout"
    /\ processed' = Append(processed, [job |-> idx, how |-> "glob"])
    /\ item' = NoItem
    /\ job_items' = <<>>
    /\ UNCHANGED << status_, jobs_, output_path_, idx, stdin_init, stdin_input,
                    cin_buf, cin_fail, outfiles, jobs0, raised, nomatch,
                    stdin_reads, console_data >>
    /\ UNCHANGED parseVars
    /\ UNCHANGED configured

\* one round of `for (Path& p : paths) { Job copy = job; process_path_(p, copy); }`
FanoutItem ==
    /\ pc = "fanout"
    /\ \E r \in ReadOutcomes, o \in OpenOutcomes, t \in TransformOutcomes :
          LET res == process_path_(status_, outfiles, paths[mi], jobs_[idx],
                                   output_path_, r, o, t, debug_mode_)
              it == ItemOf(idx, paths[mi], res, status_)
          IN /\ (r = "fail" => o = "ok" /\ t = "ok")
             /\ (~(r = "ok" /\ OpensFile(res.job)) => o = "ok")
             /\ (it.transform = "none" => t = "ok")
             /\ jobs_' = StoreCopy(jobs_, idx, res.job)
             /\ status_' = res.status
             /\ raised' = Max(raised, res.status)
             /\ outfiles' = res.files
             /\ item' = it
             /\ job_items' = Append(job_items, it)
    /\ IF mi < Len(paths)
       THEN /\ mi' = mi + 1
            /\ UNCHANGED << pc, idx >>
       ELSE /\ mi' = 1
            /\ pc' = "loop"
            /\ idx' = idx + 1
    /\ UNCHANGED << output_path_, paths, stdin_init, stdin_input, cin_buf,
                    cin_fail, jobs0, nomatch, processed, stdin_reads, console_data >>
    /\ UNCHANGED parseVars
    /\ UNCHANGED configured

\* get_stdin has to run process_stdin: the static is not initialised
NeedsCapture(init) == ~init

\* console job, get_stdin throws: process_stdin drains std::cin, finds the
\* stream failed and throws std::ios::failure; the static stays uninitialised
ProcessConsoleThrows ==
    /\ AtJob
    /\ jobs_[idx].source_type = "console"
    /\ NeedsCapture(stdin_init)
    /\ cin_fail
    /\ stdin_reads' = stdin_reads + 1
    /\ cin_buf' = <<>>
    /\ Thrown("exception", "throw")
    /\ UNCHANGED << jobs_, output_path_, stdin_init, stdin_input, cin_fail,
                    outfiles, jobs0, nomatch, console_data >>
    /\ UNCHANGED parseVars
    /\ UNCHANGED configured

\* console job: get_stdin returns the captured input
ProcessConsole ==
    /\ AtJob
    /\ jobs_[idx].source_type = "console"
    /\ NeedsCapture(stdin_init) => ~cin_fail
    /\ LET data == IF NeedsCapture(stdin_init) THEN cin_buf ELSE stdin_input
       IN /\ stdin_init' = TRUE
          /\ stdin_input' = data
          /\ stdin_reads' = IF NeedsCapture(stdin_init)
                            THEN stdin_reads + 1 ELSE stdin_reads
          /\ cin_buf' = IF NeedsCapture(stdin_init) THEN <<>> ELSE cin_buf
          /\ \E o \in OpenOutcomes, t \in TransformOutcomes :
                LET res == process_non_path_(status_, outfiles, data, jobs_[idx],
                                             output_path_, o, t, debug_mode_)
                    it == ItemOf(idx, <<>>, res, status_)
                IN /\ (~OpensFile(res.job) => o = "ok")
                   /\ (it.transform = "none" => t = "ok")
                   /\ jobs_' = StoreBack(jobs_, idx, res.job)
                   /\ status_' = res.status
                   /\ raised' = Max(raised, res.status)
                   /\ outfiles' = res.files
                   /\ item' = it
                   /\ job_items' = << it >>
                   /\ console_data' = IF it.transform # "none"
                                      THEN console_data \cup { data }
                                      ELSE console_data
    /\ processed' = Append(processed, [job |-> idx, how |-> "console"])
    /\ idx' = idx + 1
    /\ paths' = <<>>
    /\ mi' = 1
    /\ UNCHANGED << pc, output_path_, cin_fail, jobs0, nomatch >>
    /\ UNCHANGED parseVars
    /\ UNCHANGED configured

\* raw job: the template is the job's source
ProcessRaw ==
    /\ AtJob
    /\ jobs_[idx].source_type = "raw"
    /\ \E o \in OpenOutcomes, t \in TransformOutcomes :
          LET res == process_non_path_(status_, outfiles, jobs_[idx].source,
                                       jobs_[idx], output_path_, o, t, debug_mode_)
              it == ItemOf(idx, <<>>, res, status_)
          IN /\ (~OpensFile(res.job) => o = "ok")
             /\ (it.transform = "none" => t = "ok")
             /\ jobs_' = StoreBack(jobs_, idx, res.job)
             /\ status_' = res.status
             /\ raised' = Max(raised, res.status)
             /\ outfiles' = res.files
             /\ item' = it
             /\ job_items' = << it >>
    /\ processed' = Append(processed, [job |-> idx, how |-> "raw"])
    /\ idx' = idx + 1
    /\ paths' = <<>>
    /\ mi' = 1
    /\ UNCHANGED << pc, output_path_, stdin_init, stdin_input, cin_buf, cin_fail,
                    jobs0, nomatch, stdin_reads, console_data >>
    /\ UNCHANGED parseVars
    /\ UNCHANGED configured

\* the job loop is over: operator() returns status_; what process_ kept
\* of its last job is gone
Return ==
    /\ pc = "loop"
    /\ idx > Len(jobs_)
    /\ pc' = "done"
    /\ item' = NoItem
    /\ paths' = <<>>
    /\ job_items' = <<>>
    /\ UNCHANGED << status_, jobs_, output_path_ >>
    /\ UNCHANGED parseVars
    /\ UNCHANGED configured
    /\ UNCHANGED << idx, mi, stdin_init, stdin_input, cin_buf, cin_fail,
                    outfiles, jobs0, raised, nomatch, processed,
                    stdin_reads, console_data >>

\* ================================================================ claims
LastHow == IF processed = <<>> THEN "none" ELSE processed[Len(processed)].how
LastJob == IF processed = <<>> THEN 0 ELSE processed[Len(processed)].job

\* the job whose fan-out has just been completed matched two or more files
FanoutDone == pc # "fanout" /\ LastHow = "glob" /\ Len(paths) >= 2

\* C1: no step of the run lowers status_, and the status operator() returns
\* is the highest severity raised during the run.
StatusNeverLowered ==
    [][ /\ status_' >= status_
        /\ (pc' = "done" => status_' = raised') ]_vars

\* C2: a work item whose destination file could not be opened leaves the
\* status at WriteError (5) or above and never reaches the transform.
WriteOpenFailureRaises ==
    (item.job # 0 /\ item.open \in { "failbit", "throw" })
        => (status_ >= 5 /\ item.transform = "none")

\* C3: once the constructor has returned, every stored job has the dest and
\* dest_type it was created with.
JobsNeverWritten ==
    pc # "parse" =>
        \A i \in 1 .. Len(jobs_) :
            /\ jobs_[i].dest = jobs0[i].dest
            /\ jobs_[i].dest_type = jobs0[i].dest_type

\* C3, amended: a stored job keeps its source, source_type and dest_type; it
\* keeps its dest as well unless process_ ran process_path_ on it through
\* the absolute-path fast path or process_non_path_ on it with dest_type
\* path, the two places that plan on the stored job and not on a copy.
JobsWrittenOnlyInPlace ==
    pc # "parse" =>
        /\ Len(jobs_) = Len(jobs0)
        /\ \A i \in 1 .. Len(jobs_) :
              /\ jobs_[i].source = jobs0[i].source
              /\ jobs_[i].source_type = jobs0[i].source_type
              /\ jobs_[i].dest_type = jobs0[i].dest_type
              /\ jobs_[i].dest # jobs0[i].dest =>
                    /\ i <= Len(processed)
                    /\ processed[i].how \in { "absolute", "raw", "console" }
                    /\ jobs0[i].dest_type = "path"

\* C3 witness: a glob job with a path destination fanned out over two
\* matches, each planned to its own file, and the stored job is as created.
GlobJobLeftAsCreated ==
    /\ pc = "loop"
    /\ FanoutDone
    /\ Len(job_items) = 2
    /\ jobs0[LastJob].dest_type = "path"
    /\ job_items[1].dest # jobs0[LastJob].dest
    /\ job_items[2].dest # job_items[1].dest
    /\ jobs_[LastJob] = jobs0[LastJob]

\* C4: when operator() returns after having entered the job loop, process_
\* has been called for every job, in declaration order, whatever each job
\* produced.
EveryJobProcessedInOrder ==
    (pc = "done" /\ processed # <<>>) =>
        /\ Len(processed) = Len(jobs_)
        /\ \A k \in 1 .. Len(processed) : processed[k].job = k

\* C4 witness: the first job failed (its lookup threw or matched nothing)
\* and the second job's work item was compiled before the run ended.
FailureThenLaterJobCompiled ==
    /\ pc = "loop"
    /\ Len(processed) = 2
    /\ processed[1].how \in { "throw", "nomatch" }
    /\ item.job = 2
    /\ item.transform = "ok"

\* C5: a path job that matches no file raises NoInputMatch (3) and runs no
\* work item, and the status operator() returns is then at least 3.
NoMatchRaisesToTheEnd ==
    /\ (pc = "loop" /\ LastHow = "nomatch") =>
          (status_ >= 3 /\ item = NoItem /\ job_items = <<>>)
    /\ (pc = "done" /\ nomatch) => status_ >= 3

\* C6: a work item whose source file cannot be read raises the status to
\* ReadError (4) or above, opens and writes nothing, does not reach the
\* transform, and the loop goes on with the next match of the job or, after
\* the last match, with the next job.
ReadFailureAbortsOnlyItem ==
    [][ item'.read = "fail" =>
          /\ status_' >= 4
          /\ item'.open = "none"
          /\ item'.transform = "none"
          /\ outfiles' = outfiles
          /\ IF pc = "fanout" /\ mi < Len(paths)
             THEN pc' = "fanout" /\ idx' = idx /\ mi' = mi + 1 /\ paths' = paths
             ELSE pc' = "loop" /\ idx' = idx + 1 ]_vars

\* C6 witness: the first match of a job could not be read and the second
\* match of the same job was compiled.
ReadFailureThenNextMatch ==
    /\ FanoutDone
    /\ Len(job_items) = 2
    /\ job_items[1].read = "fail"
    /\ job_items[2].transform = "ok"

\* the path of a .blt file with its extension replaced by lua
LuaOf(f) == SubSeq(f, 1, Len(f) - 1) \o <<"lua">>

\* C7: a job that matched k > 1 files ran exactly k work items, one per
\* match in resolver order, and with an empty destination token each item's
\* destination is its own match with the extension replaced by lua (below
\* the output directory when one is set).
FanoutOneItemPerMatch ==
    /\ pc = "fanout" => Len(job_items) = mi - 1
    /\ FanoutDone => Len(job_items) = Len(paths)
    /\ (LastHow = "glob" /\ Len(paths) >= 2) =>
          \A k \in 1 .. Len(job_items) :
              /\ job_items[k].src = paths[k]
              /\ job_items[k].job = LastJob
              /\ (jobs0[LastJob].dest_type = "path" /\ jobs0[LastJob].dest = <<>>) =>
                    job_items[k].dest =
                        IF output_path_ = <<>> THEN LuaOf(paths[k])
                        ELSE output_path_ \o <<"/">> \o LuaOf(paths[k])

\* C7 witness: two matches, no destination token, an output directory: two
\* work items with two different destinations.
FanoutTwoDestinations ==
    /\ FanoutDone
    /\ Len(job_items) = 2
    /\ jobs0[LastJob].dest_type = "path"
    /\ jobs0[LastJob].dest = <<>>
    /\ output_path_ # <<>>
    /\ job_items[1].dest # job_items[2].dest
    /\ job_items[2].transform = "ok"

\* C8: the work item of a raw or console job created with an empty
\* destination token writes to standard output and opens no file.
NonPathEmptyDestToStdout ==
    (/\ item.job # 0
     /\ jobs0[item.job].source_type \in { "raw", "console" }
     /\ jobs0[item.job].dest = <<>>)
        => (/\ item.dest_type = "console"
            /\ item.open = "none"
            /\ item.transform # "none")

\* C8 witness: an earlier job had --output, yet the console job after it,
\* with no destination token, was compiled to standard output.
StdinJobToStdout ==
    /\ item.job = 2
    /\ jobs0[2].source_type = "console"
    /\ jobs0[2].dest = <<>>
    /\ jobs0[1].dest # <<>>
    /\ jobs0[1].dest_type = "path"
    /\ item.dest_type = "console"
    /\ item.transform = "ok"

\* the destination an explicit token stands for
TokenDest(tok) ==
    IF tok[1] = "/" \/ output_path_ = <<>> THEN tok
    ELSE output_path_ \o <<"/">> \o tok

\* the work items of the current job that opened their destination
Writers == { k \in 1 .. Len(job_items) : job_items[k].open = "ok" }
LastWriter == CHOOSE k \in Writers : \A w \in Writers : w <= k

\* C9: a job with an explicit path destination that matched two or more
\* files plans every work item to that one destination, a clean work item
\* raises no status, and the file holds what the last item that wrote it
\* left there.
ExplicitDestSharedLastWins ==
    /\ (/\ LastHow = "glob" /\ Len(paths) >= 2
        /\ jobs0[LastJob].dest_type = "path" /\ jobs0[LastJob].dest # <<>>) =>
          /\ \A k \in 1 .. Len(job_items) :
                /\ job_items[k].src = paths[k]
                /\ job_items[k].dest = TokenDest(jobs0[LastJob].dest)
                /\ (job_items[k].read = "ok" /\ job_items[k].open = "ok"
                       /\ job_items[k].transform = "ok") =>
                      job_items[k].after = job_items[k].before
                /\ k > 1 => job_items[k].before = job_items[k - 1].after
          /\ Writers # {} =>
                /\ TokenDest(jobs0[LastJob].dest) \in DOMAIN outfiles
                /\ outfiles[TokenDest(jobs0[LastJob].dest)] =
                      IF job_items[LastWriter].transform = "ok"
                      THEN Compiled(FileContents(paths[LastWriter]), debug_mode_)
                      ELSE Partial

\* C9 witness: --output with a relative token, an output directory, two
\* matches both compiled: the file holds the second match's output.
SecondMatchOverwrites ==
    /\ FanoutDone
    /\ Len(job_items) = 2
    /\ jobs0[LastJob].dest = <<"x">>
    /\ jobs0[LastJob].dest_type = "path"
    /\ output_path_ # <<>>
    /\ job_items[1].transform = "ok"
    /\ job_items[2].transform = "ok"
    /\ status_ = 0

\* C10: process_stdin runs at most once in a run, and every console job
\* that reaches the transform hands it the same bytes.
StdinCapturedOnce ==
    /\ stdin_reads <= 1
    /\ Cardinality(console_data) <= 1

\* no destination is pending: the token is empty and the kind is path
PendingClean == dest = <<>> /\ dest_type = "path"

\* C11: a handler that creates a job stores the pending destination token
\* in it (and, for a path job, the pending kind) and leaves nothing pending,
\* and only --output and --stdout make a destination pending; so a job
\* created with nothing pending has an empty destination token.
DestinationBindsOneInput ==
    [][ /\ Len(jobs_') = Len(jobs_) + 1 =>
              /\ PendingClean'
              /\ jobs_'[Len(jobs_')].dest = dest
              /\ jobs_'[Len(jobs_')].source_type = "path" =>
                    jobs_'[Len(jobs_')].dest_type = dest_type
              /\ PendingClean =>
                    /\ jobs_'[Len(jobs_')].dest = <<>>
                    /\ jobs_'[Len(jobs_')].dest_type =
                          IF jobs_'[Len(jobs_')].source_type = "path"
                          THEN "path" ELSE "console"
        /\ (PendingClean /\ ~PendingClean') => (OptOutput \/ OptStdout) ]_vars

\* C11 witness: --output bound the first input only: the second input,
\* a path job, was created with no destination and nothing is pending.
SecondInputUnbound ==
    /\ pc = "parse"
    /\ Len(jobs_) = 2
    /\ jobs_[1].dest # <<>>
    /\ jobs_[2].source_type = "path"
    /\ jobs_[2].dest = <<>>
    /\ jobs_[2].dest_type = "path"
    /\ PendingClean

\* C12: operator() entered with a non-zero status, or whose configuring of
\* the search paths and output directory fails, returns at once with that
\* non-zero status: no job is processed, nothing is read from standard
\* input, no file is written, no work item runs; and nothing follows the
\* return.
SetupGatesJobLoop ==
    [][ /\ (pc = "start" /\ (status_ # 0 \/ configured' \in { "notdir", "absolute", "create" })) =>
              /\ pc' = "done"
              /\ status_' # 0
              /\ status_ # 0 => (status_' = status_ /\ status_ \in { 1, 2 })
              /\ configured' = "notdir" => status_' = 5
              /\ configured' \in { "absolute", "create" } => status_' = 1
              /\ processed' = <<>>
              /\ item' = NoItem
              /\ outfiles' = << >>
              /\ stdin_reads' = 0
              /\ console_data' = {}
              /\ jobs_' = jobs_
        /\ pc = "done" => FALSE ]_vars

\* C12 witness: two jobs were declared, creating the output directory threw
\* a filesystem error, and operator() returned 1 with no job processed.
SetupFailedNothingRan ==
    /\ pc = "done"
    /\ configured = "create"
    /\ Len(jobs_) = 2
    /\ status_ = 1
    /\ processed = <<>>
    /\ outfiles = << >>

\* ==================================================== specification
Next ==
    \/ OptOutput
    \/ OptStdout
    \/ OptDebug
    \/ OptInput
    \/ OptStdin
    \/ Positional
    \/ OptOutputDir
    \/ OptShow
    \/ ArgumentError
    \/ ParseEnd
    \/ ReturnEarly
    \/ Setup
    \/ ProcessPathThrows
    \/ ProcessAbsolute
    \/ ProcessNoMatch
    \/ ProcessGlob
    \/ FanoutItem
    \/ ProcessConsoleThrows
    \/ ProcessConsole
    \/ ProcessRaw
    \/ Return

Spec == Init /\ [][Next]_vars

====
